---- MODULE Spec2Model ----
(***************************************************************************)
(* StudyWise: document-to-notes pipeline.                                  *)
(*                                                                         *)
(* Text is modelled as a sequence of one-character strings, so that the    *)
(* string operations of the source (strip, split, replace, join, slicing)  *)
(* are computed character by character.                                    *)
(***************************************************************************)
EXTENDS Integers, Sequences, FiniteSets, TLC

VARIABLES
    \* ---- remote client: gemini_summarize ----
    g_pc,          \* "idle" | "entry" | "loop" | "returned" | "raised"
    api_key,       \* argument api_key
    max_retries,   \* argument max_retries
    attempt,       \* loop variable of `for attempt in range(max_retries)`
    g_trace,       \* observed events: backend calls and time.sleep calls
    g_out          \* what the call returned or raised

VARIABLES
    \* ---- local client: ollama_summarize ----
    o_pc,          \* "idle" | "entry" | "returned" | "raised"
    o_req,         \* what the call ran or requested, in order
    o_out          \* what the call returned or raised

VARIABLES
    \* ---- router and orchestrator: summarize, summarize_text ----
    s_pc,          \* "idle" | "entry" | "loop" | "in_client" | "returned" | "raised"
    text,          \* argument text
    mode,          \* argument mode
    gemini_key,    \* argument gemini_key
    chunks,        \* local chunks
    summaries,     \* local summaries
    idx,           \* loop variable i of enumerate(chunks, start=1)
    s_log,         \* observed events: router calls and their returns
    s_out          \* what summarize_text returned or raised

VARIABLES
    \* ---- merge, clean, chunk applied to a list of documents ----
    p_pc,          \* "idle" | "start" | "merged" | "chunked_raw" | "cleaned" | "chunked"
    p_docs,        \* the files in order: basename and extracted text
    p_max,         \* argument max_chars of chunk_text
    p_raw,         \* extract_and_merge(files)
    p_cleaned,     \* clean_text(raw)
    p_chunks       \* chunk_text(raw or cleaned, max_chars)

VARIABLES
    \* ---- front end and worker threads: StudyWiseApp, Worker ----
    app,           \* "idle" | "running" | "probed" | "no_model" | "aborted"
    files,         \* the list object StudyWiseApp.files (every Worker holds this same object)
    cfg,           \* the saved configuration file
    generate_btn,  \* generate_btn.isEnabled()
    stop_btn,      \* stop_btn.isEnabled()
    add_btn,       \* add_btn.isEnabled(); settings_btn, remove_btn, clear_btn always equal it
    worker,        \* StudyWiseApp.worker: index into workers, 0 for None
    workers,       \* every Worker object created so far, with the position of its run()
    signals        \* finished/error signals emitted by worker threads, queued for the main thread

VARIABLES
    \* ---- flashcard parsing: generate_flashcards ----
    c_pc,          \* "idle" | "called" | "loop" | "returned"
    c_raw,         \* local raw: the text the backend call returned
    c_lines,       \* raw.splitlines()
    c_k,           \* position of the loop `for line in raw.splitlines()`
    c_q,           \* local q: <<>> for None, <<t>> for the string t
    c_cards        \* local cards

VARIABLES
    \* ---- post-filter: strip_thinking applied once and twice ----
    f_pc,          \* "idle" | "start" | "once" | "twice"
    f_in,          \* the text given to strip_thinking
    f_once,        \* strip_thinking(f_in)
    f_twice        \* strip_thinking(strip_thinking(f_in))

VARIABLES
    \* ---- availability probe: one ollama_has_model call ----
    h_pc,          \* "idle" | "start" | "cli" | "http" | "done"
    h_env,         \* what the machine answers: PATH, install folder, `list`, HTTP
    h_cli,         \* local cli of ollama_has_model
    h_out          \* outcome of the call

geminiVars == <<g_pc, api_key, max_retries, attempt, g_trace, g_out>>
ollamaVars == <<o_pc, o_req, o_out>>
sumVars    == <<s_pc, text, mode, gemini_key, chunks, summaries, idx, s_log, s_out>>

pipeVars   == <<p_pc, p_docs, p_max, p_raw, p_cleaned, p_chunks>>
appVars    == <<app, files, cfg, generate_btn, stop_btn, add_btn, worker, workers,
                signals>>

cardVars   == <<c_pc, c_raw, c_lines, c_k, c_q, c_cards>>

filterVars == <<f_pc, f_in, f_once, f_twice>>

probeVars  == <<h_pc, h_env, h_cli, h_out>>

vars == <<geminiVars, ollamaVars, sumVars, pipeVars, appVars, cardVars, filterVars, probeVars>>

\* everything outside one component
notGemini == <<ollamaVars, sumVars, pipeVars, appVars, cardVars, filterVars, probeVars>>
notOllama == <<geminiVars, sumVars, pipeVars, appVars, cardVars, filterVars, probeVars>>
notSum    == <<geminiVars, ollamaVars, pipeVars, appVars, cardVars, filterVars, probeVars>>
notPipe   == <<geminiVars, ollamaVars, sumVars, appVars, cardVars, filterVars, probeVars>>
notApp    == <<geminiVars, ollamaVars, sumVars, pipeVars, cardVars, filterVars, probeVars>>
notCards  == <<geminiVars, ollamaVars, sumVars, pipeVars, appVars, filterVars, probeVars>>
notFilter == <<geminiVars, ollamaVars, sumVars, pipeVars, appVars, cardVars, probeVars>>
notProbe  == <<geminiVars, ollamaVars, sumVars, pipeVars, appVars, cardVars, filterVars>>

-----------------------------------------------------------------------------
(* Bounds *)

MaxRetriesBound == 4      \* max_retries is drawn from 0 .. MaxRetriesBound
MaxSumDocs == 3           \* documents in a text given to summarize_text
MaxDocs == 2              \* files given to extract_and_merge
MaxFilterLines == 4        \* lines of a text given to strip_thinking
MaxCardLines == 5          \* lines of a flashcard response
MaxRuns == 2               \* Worker objects created by generate
MaxCharsBound == 13       \* max_chars is drawn from 1 .. MaxCharsBound and the default

-----------------------------------------------------------------------------
(* Python string primitives on sequences of characters *)

IsSpace(c) == c \in {" ", "\n", "\t", "\r"}

RECURSIVE lstrip(_)
lstrip(s) ==
    IF s = <<>> THEN s
    ELSE IF IsSpace(Head(s)) THEN lstrip(Tail(s)) ELSE s

RECURSIVE rstrip(_)
rstrip(s) ==
    IF s = <<>> THEN s
    ELSE IF IsSpace(s[Len(s)]) THEN rstrip(SubSeq(s, 1, Len(s) - 1)) ELSE s

strip(s) == rstrip(lstrip(s))

startswith(s, p) == Len(s) >= Len(p) /\ SubSeq(s, 1, Len(p)) = p

\* str.find, 1-based; 0 when p does not occur in s
find(s, p) ==
    LET hits == {i \in 1..(Len(s) - Len(p) + 1) : SubSeq(s, i, i + Len(p) - 1) = p}
    IN  IF hits = {} THEN 0
        ELSE CHOOSE i \in hits : \A j \in hits : i <= j

contains(s, p) == find(s, p) # 0

RECURSIVE split(_, _)
split(s, sep) ==
    LET i == find(s, sep)
    IN  IF i = 0 THEN <<s>>
        ELSE <<SubSeq(s, 1, i - 1)>> \o split(SubSeq(s, i + Len(sep), Len(s)), sep)

RECURSIVE replace(_, _, _)
replace(s, old, new) ==
    LET i == find(s, old)
    IN  IF i = 0 THEN s
        ELSE SubSeq(s, 1, i - 1) \o new
                 \o replace(SubSeq(s, i + Len(old), Len(s)), old, new)

RECURSIVE join(_, _)
join(sep, parts) ==
    IF parts = <<>> THEN <<>>
    ELSE IF Len(parts) = 1 THEN parts[1]
    ELSE parts[1] \o sep \o join(sep, Tail(parts))

RECURSIVE pow2(_)
pow2(k) == IF k = 0 THEN 1 ELSE 2 * pow2(k - 1)

-----------------------------------------------------------------------------
(* Outcomes of a call: a returned value or a raised exception *)

Pending       == [kind |-> "pending"]
Returned(t)   == [kind |-> "return", text |-> t]
ReturnedNone  == [kind |-> "return_none"]
Raised(x, m)  == [kind |-> "raise", exc |-> x, msg |-> m]

RuntimeError(m) == Raised("RuntimeError", m)
ValueError(m)   == Raised("ValueError", m)
\* an exception of the client library, re-raised unchanged
BackendError(m) == Raised("BackendError", m)

-----------------------------------------------------------------------------
(* Remote client: gemini_summarize(prompt, api_key, max_retries=3)         *)

DefaultMaxRetries == 3

\* What one model.generate_content(prompt) call can do.
\*   text:  a response whose .text is the given (truthy) string
\*   empty: a falsy response or an empty .text
\*   exc:   an exception with the given message
ResponseTexts ==
    { <<"n">>, <<" ", "n", "\n">>, <<"\n", " ">>, <<"o", "k", ".", "\n", "m">> }

BackendMessages ==
    { "429 Resource has been exhausted",
      "Quota exceeded for requests per minute",
      "503 Service unavailable",
      "Connection reset by peer" }

EmptyResponseMsg == "Gemini returned empty response"
KeyNotSetMsg     == "Gemini API key not set"
QuotaExceededMsg == "Gemini API quota exceeded. Free tier limit reached."

\* `"429" in error_msg or "quota" in error_msg.lower()`
is_rate_limit(msg) ==
    msg \in { "429 Resource has been exhausted",
              "Quota exceeded for requests per minute" }

\* `wait_time = 2 ** attempt`
backoff_from_two(k) == pow2(k + 1)
backoff(k) == pow2(k)

\* `if attempt < max_retries - 1`
may_retry_off_by_one(k, n) == k < n
may_retry(k, n) == k < n - 1

CallEv(r)  == [ev |-> "call", resp |-> r]
SleepEv(t) == [ev |-> "sleep", secs |-> t]

TextResp(t) == [type |-> "text", text |-> t]
EmptyResp   == [type |-> "empty"]
ExcResp(m)  == [type |-> "exc", msg |-> m]

GeminiIdle ==
    /\ g_pc = "idle"
    /\ api_key = ""
    /\ max_retries = DefaultMaxRetries
    /\ attempt = 0
    /\ g_trace = <<>>
    /\ g_out = Pending

\* lines 6-7
GeminiKeyNotSet ==
    /\ g_pc = "entry"
    /\ api_key = ""
    /\ g_pc' = "raised"
    /\ g_out' = RuntimeError(KeyNotSetMsg)
    /\ UNCHANGED <<api_key, max_retries, attempt, g_trace>>
    /\ UNCHANGED notGemini

\* lines 9-12: configure, build the model, enter the loop
GeminiConfigure ==
    /\ g_pc = "entry"
    /\ api_key # ""
    /\ g_pc' = "loop"
    /\ attempt' = 0
    /\ UNCHANGED <<api_key, max_retries, g_trace, g_out>>
    /\ UNCHANGED notGemini

\* lines 14-19: the call returns usable text
GeminiReturn ==
    /\ g_pc = "loop"
    /\ attempt < max_retries
    /\ \E t \in ResponseTexts :
         /\ g_trace' = Append(g_trace, CallEv(TextResp(t)))
         /\ g_out' = Returned(strip(t))
    /\ g_pc' = "returned"
    /\ UNCHANGED <<api_key, max_retries, attempt>>
    /\ UNCHANGED notGemini

\* lines 16-17, 21-25, 41: empty response; the RuntimeError raised inside the
\* try block is caught by the handler, is not a rate-limit message, re-raised
GeminiEmpty_retried ==
    /\ g_pc = "loop"
    /\ attempt < max_retries
    /\ g_trace' = g_trace \o <<CallEv(EmptyResp), SleepEv(backoff(attempt))>>
    /\ attempt' = attempt + 1
    /\ UNCHANGED <<g_pc, api_key, max_retries, g_out>>
    /\ UNCHANGED notGemini
GeminiEmpty ==
    /\ g_pc = "loop"
    /\ attempt < max_retries
    /\ ~is_rate_limit(EmptyResponseMsg)
    /\ g_trace' = Append(g_trace, CallEv(EmptyResp))
    /\ g_out' = RuntimeError(EmptyResponseMsg)
    /\ g_pc' = "raised"
    /\ UNCHANGED <<api_key, max_retries, attempt>>
    /\ UNCHANGED notGemini

\* lines 21-30: rate-limited and attempts remain: sleep, then next attempt
GeminiRetry ==
    /\ g_pc = "loop"
    /\ attempt < max_retries
    /\ \E m \in BackendMessages :
         /\ is_rate_limit(m)
         /\ may_retry(attempt, max_retries)
         /\ g_trace' = g_trace \o <<CallEv(ExcResp(m)), SleepEv(backoff(attempt))>>
    /\ attempt' = attempt + 1
    /\ UNCHANGED <<g_pc, api_key, max_retries, g_out>>
    /\ UNCHANGED notGemini

\* lines 21-26, 31-38: rate-limited on the last attempt
GeminiQuotaExceeded ==
    /\ g_pc = "loop"
    /\ attempt < max_retries
    /\ \E m \in BackendMessages :
         /\ is_rate_limit(m)
         /\ ~may_retry(attempt, max_retries)
         /\ g_trace' = Append(g_trace, CallEv(ExcResp(m)))
    /\ g_out' = RuntimeError(QuotaExceededMsg)
    /\ g_pc' = "raised"
    /\ UNCHANGED <<api_key, max_retries, attempt>>
    /\ UNCHANGED notGemini

\* lines 21-25, 41: any other exception is re-raised as it is
GeminiOtherError_wrapped ==
    /\ g_pc = "loop"
    /\ attempt < max_retries
    /\ \E m \in BackendMessages :
         /\ ~is_rate_limit(m)
         /\ g_trace' = Append(g_trace, CallEv(ExcResp(m)))
         /\ g_out' = RuntimeError(m)
    /\ g_pc' = "raised"
    /\ UNCHANGED <<api_key, max_retries, attempt>>
    /\ UNCHANGED notGemini
GeminiOtherError ==
    /\ g_pc = "loop"
    /\ attempt < max_retries
    /\ \E m \in BackendMessages :
         /\ ~is_rate_limit(m)
         /\ g_trace' = Append(g_trace, CallEv(ExcResp(m)))
         /\ g_out' = BackendError(m)
    /\ g_pc' = "raised"
    /\ UNCHANGED <<api_key, max_retries, attempt>>
    /\ UNCHANGED notGemini

\* line 12: range(max_retries) is exhausted; the function falls off its end
GeminiLoopExhausted ==
    /\ g_pc = "loop"
    /\ attempt >= max_retries
    /\ g_pc' = "returned"
    /\ g_out' = ReturnedNone
    /\ UNCHANGED <<api_key, max_retries, attempt, g_trace>>
    /\ UNCHANGED notGemini

\* the backend calls, and the waits, of the current client call, in order
GeminiCalls == SelectSeq(g_trace, LAMBDA e : e.ev = "call")
GeminiWaits == SelectSeq(g_trace, LAMBDA e : e.ev = "sleep")

-----------------------------------------------------------------------------
(* Local client: ollama_summarize(prompt)                                  *)

DEFAULT_MODEL == "llama3"

\* replies of GET /api/tags: unreachable or malformed, or a list of entries,
\* each the value of `m.get("name") or m.get("model")` ("" when neither is set)
TagsReplies ==
    { [ok |-> FALSE, models |-> <<>>],
      [ok |-> TRUE,  models |-> <<>>],
      [ok |-> TRUE,  models |-> <<"llama3:latest">>],
      [ok |-> TRUE,  models |-> <<"mistral:7b", "llama3:latest">>],
      [ok |-> TRUE,  models |-> <<"", "mistral">>] }

\* `str(name).split(":")[0]`
strip_tag(name) ==
    CASE name = "llama3:latest" -> "llama3"
      [] name = "mistral:7b"    -> "mistral"
      [] OTHER                  -> name

RECURSIVE tag_names(_)
tag_names(models) ==
    IF models = <<>> THEN <<>>
    ELSE IF Head(models) = "" THEN tag_names(Tail(models))
    ELSE <<strip_tag(Head(models))>> \o tag_names(Tail(models))

\* _ollama_http_models(): the names, or [] on any fault
ollama_http_models(reply) == IF reply.ok THEN tag_names(reply.models) ELSE <<>>

select_model_first(models) ==
    IF models # <<>> THEN models[1] ELSE DEFAULT_MODEL

\* `DEFAULT_MODEL if DEFAULT_MODEL in models else (models[0] if models else DEFAULT_MODEL)`
select_model(models) ==
    IF \E i \in 1..Len(models) : models[i] = DEFAULT_MODEL THEN DEFAULT_MODEL
    ELSE IF models # <<>> THEN models[1]
    ELSE DEFAULT_MODEL

StderrTexts == { <<>>, <<"\n">>, <<"e", "\n">> }

CliRun       == [op |-> "cli_run", model |-> DEFAULT_MODEL]
\* GET /api/tags and what it answered
HttpTags(reply) == [op |-> "http_tags", reply |-> reply]
HttpGenerate(m) == [op |-> "http_generate", model |-> m]

RestFailed(cause) ==
    [kind |-> "raise", exc |-> "RuntimeError", msg |-> "Ollama REST call failed", cause |-> cause]

OllamaIdle ==
    /\ o_pc = "idle"
    /\ o_req = <<>>
    /\ o_out = Pending

\* lines 67-80: the binary is found and the run exceeds the 90 s timeout
OllamaCliTimeout ==
    /\ o_pc = "entry"
    /\ o_req' = <<CliRun>>
    /\ o_out' = RuntimeError("Ollama model timed out")
    /\ o_pc' = "raised"
    /\ UNCHANGED notOllama

\* lines 69-78: subprocess.run raises something other than TimeoutExpired
OllamaCliSpawnFault ==
    /\ o_pc = "entry"
    /\ o_req' = <<CliRun>>
    /\ o_out' = Raised("OSError", "spawn failed")
    /\ o_pc' = "raised"
    /\ UNCHANGED notOllama

\* lines 82-83: nonzero exit
OllamaCliNonzero ==
    /\ o_pc = "entry"
    /\ \E err \in StderrTexts :
         o_out' = IF strip(err) # <<>>
                  THEN [kind |-> "raise", exc |-> "RuntimeError", msg |-> "stderr",
                        stderr |-> strip(err)]
                  ELSE RuntimeError("Ollama failed")
    /\ o_req' = <<CliRun>>
    /\ o_pc' = "raised"
    /\ UNCHANGED notOllama

\* lines 85-88: exit 0; the stripped output is returned unless it is empty
OllamaCliExit0 ==
    /\ o_pc = "entry"
    /\ \E out \in ResponseTexts \cup {<<>>} :
         IF strip(out) = <<>>
         THEN /\ o_out' = RuntimeError("Ollama returned empty response")
              /\ o_pc' = "raised"
         ELSE /\ o_out' = Returned(strip(out))
              /\ o_pc' = "returned"
    /\ o_req' = <<CliRun>>
    /\ UNCHANGED notOllama

\* lines 90-105, 113-114: no binary; the POST fails in transport or decoding
OllamaHttpFault ==
    /\ o_pc = "entry"
    /\ \E reply \in TagsReplies :
         o_req' = <<HttpTags(reply),
                    HttpGenerate(select_model(ollama_http_models(reply)))>>
    /\ o_out' = RestFailed("URLError")
    /\ o_pc' = "raised"
    /\ UNCHANGED notOllama

\* lines 107-108, 113-114: the reply carries "error"; the RuntimeError raised
\* inside the try block is caught and wrapped
OllamaHttpError ==
    /\ o_pc = "entry"
    /\ \E reply \in TagsReplies :
         o_req' = <<HttpTags(reply),
                    HttpGenerate(select_model(ollama_http_models(reply)))>>
    /\ o_out' = RestFailed("Ollama error")
    /\ o_pc' = "raised"
    /\ UNCHANGED notOllama

\* lines 109-114: the reply carries "response"
OllamaHttpResponse ==
    /\ o_pc = "entry"
    /\ \E reply \in TagsReplies :
         o_req' = <<HttpTags(reply),
                    HttpGenerate(select_model(ollama_http_models(reply)))>>
    /\ \E out \in ResponseTexts \cup {<<>>} :
         IF strip(out) = <<>>
         THEN /\ o_out' = RestFailed("Ollama returned empty response")
              /\ o_pc' = "raised"
         ELSE /\ o_out' = Returned(strip(out))
              /\ o_pc' = "returned"
    /\ UNCHANGED notOllama

-----------------------------------------------------------------------------
(* Chunker and post-filter: chunk_text, strip_thinking                     *)

DefaultMaxChars == 3500

\* the token "===== FILE:"
FileToken == <<"=", "=", "=", "=", "=", " ", "F", "I", "L", "E", ":">>

Min_right(a, b) == b
Min(a, b) == IF a <= b THEN a ELSE b

\* only the full slices: `range(0, len(block) - max_chars + 1, max_chars)`
slices_full_only(block, max_chars) ==
    [k \in 1..(Len(block) \div max_chars) |->
        SubSeq(block, (k - 1) * max_chars + 1, k * max_chars)]

\* `[block[i:i + max_chars] for i in range(0, len(block), max_chars)]`
slices(block, max_chars) ==
    [k \in 1..((Len(block) + max_chars - 1) \div max_chars) |->
        SubSeq(block, (k - 1) * max_chars + 1, Min(k * max_chars, Len(block)))]

\* the size test and the slicing done before the token is put back
RECURSIVE chunk_blocks_prefix_late(_, _, _)
chunk_blocks_prefix_late(blocks, has_file_markers, max_chars) ==
    IF blocks = <<>> THEN <<>>
    ELSE LET stripped == strip(Head(blocks))
             pieces   == IF Len(stripped) <= max_chars THEN <<stripped>>
                         ELSE slices(stripped, max_chars)
             rest     == chunk_blocks_prefix_late(Tail(blocks), has_file_markers, max_chars)
         IN  IF stripped = <<>> THEN rest
             ELSE [k \in 1..Len(pieces) |->
                      IF has_file_markers THEN FileToken \o pieces[k] ELSE pieces[k]] \o rest

\* the body of the loop over text.split("===== FILE:")
RECURSIVE chunk_blocks(_, _, _)
chunk_blocks(blocks, has_file_markers, max_chars) ==
    IF blocks = <<>> THEN <<>>
    ELSE LET stripped == strip(Head(blocks))
             block    == IF has_file_markers THEN FileToken \o stripped ELSE stripped
             rest     == chunk_blocks(Tail(blocks), has_file_markers, max_chars)
         IN  IF stripped = <<>> THEN rest
             ELSE IF Len(block) <= max_chars THEN <<block>> \o rest
             ELSE slices(block, max_chars) \o rest

chunk_text_last_first(t, max_chars) ==
    LET blocks == split(t, FileToken)
    IN  chunk_blocks([k \in 1..Len(blocks) |-> blocks[Len(blocks) + 1 - k]],
                     contains(t, FileToken), max_chars)
chunk_text(t, max_chars) ==
    chunk_blocks(split(t, FileToken), contains(t, FileToken), max_chars)

\* str.splitlines() for the line ends "\n", "\r" and "\r\n"
RECURSIVE splitlines(_)
splitlines(s) ==
    IF s = <<>> THEN <<>>
    ELSE LET ends == {i \in 1..Len(s) : s[i] \in {"\n", "\r"}}
         IN  IF ends = {} THEN <<s>>
             ELSE LET e == CHOOSE i \in ends : \A j \in ends : i <= j
                      n == IF s[e] = "\r" /\ e < Len(s) /\ s[e + 1] = "\n" THEN 2 ELSE 1
                  IN  <<SubSeq(s, 1, e - 1)>> \o splitlines(SubSeq(s, e + n, Len(s)))

UpperCase == <<"A", "B", "C", "D", "E", "F", "G", "H", "I", "J", "K", "L", "M",
               "N", "O", "P", "Q", "R", "S", "T", "U", "V", "W", "X", "Y", "Z">>
LowerCase == <<"a", "b", "c", "d", "e", "f", "g", "h", "i", "j", "k", "l", "m",
               "n", "o", "p", "q", "r", "s", "t", "u", "v", "w", "x", "y", "z">>

lower_char(c) ==
    IF \E i \in 1..26 : UpperCase[i] = c
    THEN LowerCase[CHOOSE i \in 1..26 : UpperCase[i] = c]
    ELSE c

lower(s) == [i \in 1..Len(s) |-> lower_char(s[i])]

\* the prefixes of line 41
MetaPrefixes ==
    { <<"t", "h", "i", "n", "k", "i", "n", "g">>,
      <<"a", "n", "a", "l", "y", "s", "i", "s">>,
      <<"w", "e", " ", "n", "e", "e", "d", " ", "t", "o">>,
      <<"m", "a", "y", "b", "e">>,
      <<"g", "i", "v", "e", "n", " ", "u", "n", "c", "l", "e", "a", "r">>,
      <<"o", "k", ".">>,
      <<".", ".", ".">> }

is_meta_line_unstripped(line) ==
    LET lowered == lower(line)
    IN  \E p \in MetaPrefixes : startswith(lowered, p)
is_meta_line(line) ==
    LET lowered == strip(lower(line))
    IN  \E p \in MetaPrefixes : startswith(lowered, p)

strip_thinking_no_blank(t) ==
    strip(join(<<"\n">>, SelectSeq(splitlines(t),
                                   LAMBDA line : ~is_meta_line(line) /\ strip(line) # <<>>)))
strip_thinking(t) ==
    strip(join(<<"\n">>, SelectSeq(splitlines(t), LAMBDA line : ~is_meta_line(line))))

\* the prompt templates, kept as the template's name and the embedded content
build_prompt(chunk)           == [template |-> "notes", content |-> chunk]
build_flashcard_prompt(notes) == [template |-> "flashcards", content |-> notes]

-----------------------------------------------------------------------------
(* Document merger: extract_and_merge(files)                               *)

\* f"\n\n===== FILE: {name} =====\n\n"
marker(name) ==
    <<"\n", "\n">> \o FileToken \o <<" ">> \o name
        \o <<" ", "=", "=", "=", "=", "=", "\n", "\n">>

\* the list `combined`: for each file its marker, then its extracted text
RECURSIVE combined_parts_skip_empty(_)
combined_parts_skip_empty(docs) ==
    IF docs = <<>> THEN <<>>
    ELSE (IF Head(docs).text = <<>> THEN <<>>
          ELSE <<marker(Head(docs).name), Head(docs).text>>)
             \o combined_parts_skip_empty(Tail(docs))

RECURSIVE combined_parts(_)
combined_parts(docs) ==
    IF docs = <<>> THEN <<>>
    ELSE <<marker(Head(docs).name), Head(docs).text>> \o combined_parts(Tail(docs))

\* docs: the files in order, each with its basename and the text its
\* extractor returns ("" for an unsupported extension)
extract_and_merge(docs) == strip(join(<<"\n">>, combined_parts(docs)))

\* all sequences over S of length at most n
SeqsUpTo(S, n) == UNION {[1..k -> S] : k \in 0..n}

-----------------------------------------------------------------------------
(* Cleaner: clean_text(text)                                               *)

\* the characters of s at the positions that satisfy keep, each mapped by to
Rewrite(s, keep(_), to(_)) ==
    LET kept == SelectSeq([i \in 1..Len(s) |-> i], keep)
    IN  [k \in 1..Len(kept) |-> to(kept[k])]

\* re.sub(r"\r\n?", "\n", text): a "\n" right after a "\r" goes with it
sub_crlf(s) ==
    Rewrite(s, LAMBDA i : ~(s[i] = "\n" /\ i > 1 /\ s[i - 1] = "\r"),
               LAMBDA i : IF s[i] = "\r" THEN "\n" ELSE s[i])

\* re.sub(r"\n\s*\n", "\n\n", text): from a newline, the greedy \s* takes the
\* whole whitespace run and backs up to its last newline, so in a whitespace
\* run everything strictly between its first and last newline is dropped
sub_blank_lines(s) ==
    LET AllSpace(a, b)  == \A k \in a..b : IsSpace(s[k])
        NewlineBefore(i) == \E a \in 1..(i - 1) : s[a] = "\n" /\ AllSpace(a, i)
        NewlineAfter(i)  == \E b \in (i + 1)..Len(s) : s[b] = "\n" /\ AllSpace(i, b)
    IN  Rewrite(s, LAMBDA i : ~(IsSpace(s[i]) /\ NewlineBefore(i) /\ NewlineAfter(i)),
                   LAMBDA i : s[i])

\* re.sub(r"[ \t]+", " ", text)
sub_spaces(s) ==
    Rewrite(s, LAMBDA i : ~(s[i] \in {" ", "\t"} /\ i > 1 /\ s[i - 1] \in {" ", "\t"}),
               LAMBDA i : IF s[i] = "\t" THEN " " ELSE s[i])

FiveEquals == <<"=", "=", "=", "=", "=">>

\* text.replace("=====", "\n\n=====\n\n")
pad_separators(s) == replace(s, FiveEquals, <<"\n", "\n">> \o FiveEquals \o <<"\n", "\n">>)

\* the characters of the three encoding artifacts are named by code point
clean_text(t) ==
    LET t1 == replace(t,  <<"U+00EF", "U+00BF", "U+00BD">>, <<>>)
        t2 == replace(t1, <<"U+00E2", "U+20AC", "U+201C">>, <<"-">>)
        t3 == replace(t2, <<"U+00E2", "U+20AC", "U+2122">>, <<"'">>)
        t4 == sub_crlf(t3)
        t5 == sub_blank_lines(t4)
        t6 == sub_spaces(t5)
    IN  strip(pad_separators(t6))

-----------------------------------------------------------------------------
(* Merge, clean and chunk applied to a list of documents                   *)

PipeIdle ==
    /\ p_pc = "idle"
    /\ p_docs = <<>>
    /\ p_max = DefaultMaxChars
    /\ p_raw = <<>>
    /\ p_cleaned = <<>>
    /\ p_chunks = <<>>

\* app.py line 157: raw = extract_and_merge(self.files)
PipeMerge ==
    /\ p_pc = "start"
    /\ p_raw' = extract_and_merge(p_docs)
    /\ p_pc' = "merged"
    /\ UNCHANGED <<p_docs, p_max, p_cleaned, p_chunks>>
    /\ UNCHANGED notPipe

\* chunk_text applied to the merger's output
PipeChunkRaw ==
    /\ p_pc = "merged"
    /\ p_chunks' = chunk_text(p_raw, p_max)
    /\ p_pc' = "chunked_raw"
    /\ UNCHANGED <<p_docs, p_max, p_raw, p_cleaned>>
    /\ UNCHANGED notPipe

\* app.py line 164: cleaned = clean_text(raw)
PipeClean ==
    /\ p_pc = "merged"
    /\ p_cleaned' = clean_text(p_raw)
    /\ p_pc' = "cleaned"
    /\ UNCHANGED <<p_docs, p_max, p_raw, p_chunks>>
    /\ UNCHANGED notPipe

\* app.py line 172, summarizer.py line 114: chunks = chunk_text(text)
PipeChunkCleaned ==
    /\ p_pc = "cleaned"
    /\ p_chunks' = chunk_text(p_cleaned, p_max)
    /\ p_pc' = "chunked"
    /\ UNCHANGED <<p_docs, p_max, p_raw, p_cleaned>>
    /\ UNCHANGED notPipe

-----------------------------------------------------------------------------
(* Router and orchestrator: summarize (llm_router), summarize_text         *)

PyNone == "None"
\* `if not gemini_key`
falsy_only_none(k) == k = PyNone
falsy(k) == k \in {PyNone, ""}

RouterCallEv(i, p) == [ev |-> "call", chunk |-> i, prompt |-> p]
ClientEv(name)     == [ev |-> "client", name |-> name]
RouterRetEv(i, o)  == [ev |-> "ret", chunk |-> i, out |-> o]

SumIdle ==
    /\ s_pc = "idle"
    /\ text = <<>>
    /\ mode = "ollama"
    /\ gemini_key = PyNone
    /\ chunks = <<>>
    /\ summaries = <<>>
    /\ idx = 1
    /\ s_log = <<>>
    /\ s_out = Pending

\* summarizer.py lines 114-115
SummarizeEntry ==
    /\ s_pc = "entry"
    /\ chunks' = chunk_text(text, DefaultMaxChars)
    /\ summaries' = <<>>
    /\ idx' = 1
    /\ s_pc' = "loop"
    /\ UNCHANGED <<text, mode, gemini_key, s_log, s_out>>
    /\ UNCHANGED notSum

\* llm_router.py lines 12-14: mode gemini without a key; the error leaves
\* summarize_text through its loop
RouterKeyNotSet ==
    /\ s_pc = "loop"
    /\ idx <= Len(chunks)
    /\ mode = "gemini"
    /\ falsy(gemini_key)
    /\ s_log' = s_log \o <<RouterCallEv(idx, build_prompt(chunks[idx])),
                            RouterRetEv(idx, RuntimeError("Gemini API key not set."))>>
    /\ s_out' = RuntimeError("Gemini API key not set.")
    /\ s_pc' = "raised"
    /\ UNCHANGED <<text, mode, gemini_key, chunks, summaries, idx>>
    /\ UNCHANGED notSum

\* llm_router.py lines 12, 15: gemini_summarize(prompt, gemini_key)
RouterToGemini ==
    /\ s_pc = "loop"
    /\ idx <= Len(chunks)
    /\ mode = "gemini"
    /\ ~falsy(gemini_key)
    /\ s_log' = s_log \o <<RouterCallEv(idx, build_prompt(chunks[idx])),
                            ClientEv("gemini")>>
    /\ g_pc' = "entry"
    /\ api_key' = gemini_key
    /\ max_retries' = DefaultMaxRetries
    /\ attempt' = 0
    /\ g_trace' = <<>>
    /\ g_out' = Pending
    /\ s_pc' = "in_client"
    /\ UNCHANGED <<text, mode, gemini_key, chunks, summaries, idx, s_out>>
    /\ UNCHANGED <<ollamaVars, pipeVars, appVars, cardVars, filterVars, probeVars>>

\* llm_router.py lines 17-18: ollama_summarize(prompt)
RouterToOllama ==
    /\ s_pc = "loop"
    /\ idx <= Len(chunks)
    /\ mode = "ollama"
    /\ s_log' = s_log \o <<RouterCallEv(idx, build_prompt(chunks[idx])),
                            ClientEv("ollama")>>
    /\ o_pc' = "entry"
    /\ o_req' = <<>>
    /\ o_out' = Pending
    /\ s_pc' = "in_client"
    /\ UNCHANGED <<text, mode, gemini_key, chunks, summaries, idx, s_out>>
    /\ UNCHANGED <<geminiVars, pipeVars, appVars, cardVars, filterVars, probeVars>>

\* llm_router.py line 20
RouterInvalidMode ==
    /\ s_pc = "loop"
    /\ idx <= Len(chunks)
    /\ mode \notin {"gemini", "ollama"}
    /\ s_log' = s_log \o <<RouterCallEv(idx, build_prompt(chunks[idx])),
                            RouterRetEv(idx, ValueError("Invalid LLM mode"))>>
    /\ s_out' = ValueError("Invalid LLM mode")
    /\ s_pc' = "raised"
    /\ UNCHANGED <<text, mode, gemini_key, chunks, summaries, idx>>
    /\ UNCHANGED notSum

\* the outcome of the client the router called
ClientDone(kind) ==
    \/ mode = "gemini" /\ g_pc = kind
    \/ mode = "ollama" /\ o_pc = kind
ClientOut == IF mode = "gemini" THEN g_out ELSE o_out

\* `"\n\n".join(summaries)`
join_summaries_single_newline(parts) == join(<<"\n">>, parts)
join_summaries(parts) == join(<<"\n", "\n">>, parts)

\* `summaries.append(summary)`
collect_prepend(acc, summary) == <<summary>> \o acc
collect(acc, summary) == Append(acc, summary)

\* summarizer.py lines 121-128: the call returned; filter, append, next chunk
SummarizeChunkDone ==
    /\ s_pc = "in_client"
    /\ ClientDone("returned")
    /\ ClientOut.kind = "return"
    /\ s_log' = Append(s_log, RouterRetEv(idx, ClientOut))
    /\ summaries' = collect(summaries, strip_thinking(ClientOut.text))
    /\ idx' = idx + 1
    /\ s_pc' = "loop"
    /\ UNCHANGED <<text, mode, gemini_key, chunks, s_out>>
    /\ UNCHANGED notSum

\* a handler that swallows the error and returns what was collected so far
SummarizeChunkRaised_partial ==
    /\ s_pc = "in_client"
    /\ ClientDone("raised")
    /\ s_log' = Append(s_log, RouterRetEv(idx, ClientOut))
    /\ s_out' = Returned(join_summaries(summaries))
    /\ s_pc' = "returned"
    /\ UNCHANGED <<text, mode, gemini_key, chunks, summaries, idx>>
    /\ UNCHANGED notSum

\* summarizer.py lines 121-125: the call raised; nothing catches it
SummarizeChunkRaised ==
    /\ s_pc = "in_client"
    /\ ClientDone("raised")
    /\ s_log' = Append(s_log, RouterRetEv(idx, ClientOut))
    /\ s_out' = ClientOut
    /\ s_pc' = "raised"
    /\ UNCHANGED <<text, mode, gemini_key, chunks, summaries, idx>>
    /\ UNCHANGED notSum

\* summarizer.py line 131
SummarizeJoin ==
    /\ s_pc = "loop"
    /\ idx > Len(chunks)
    /\ s_out' = Returned(join_summaries(summaries))
    /\ s_pc' = "returned"
    /\ UNCHANGED <<text, mode, gemini_key, chunks, summaries, idx, s_log>>
    /\ UNCHANGED notSum

-----------------------------------------------------------------------------
(* Front end (StudyWiseApp) and worker threads (Worker): ui/app.py *)

\* config.py: DEFAULT_CONFIG
DEFAULT_CONFIG == [llm_mode |-> "ollama", gemini_api_key |-> ""]

\* what SettingsDialog.save can write
Configs ==
    { [llm_mode |-> "ollama", gemini_api_key |-> ""],
      [llm_mode |-> "gemini", gemini_api_key |-> ""],
      [llm_mode |-> "gemini", gemini_api_key |-> "key"] }

\* the paths a user adds: a PDF with one line of text and a file whose
\* extension no extractor handles
Paths == {"a.pdf", "b.txt"}

\* os.path.basename(path)
basename(p) ==
    IF p = "a.pdf" THEN <<"a", ".", "p", "d", "f">> ELSE <<"b", ".", "t", "x", "t">>

\* multi_extractor.py lines 18-26: the text of the extractor chosen by the
\* extension, "" for any other extension
extracted(p) == IF p = "a.pdf" THEN <<"x">> ELSE <<>>

Range(s) == {s[k] : k \in 1..Len(s)}

\* list.remove(x): drops the first occurrence
list_remove(s, x) ==
    LET k == CHOOSE j \in 1..Len(s) : s[j] = x /\ \A h \in 1..(j - 1) : s[h] # x
    IN  [j \in 1..(Len(s) - 1) |-> IF j < k THEN s[j] ELSE s[j + 1]]

\* Worker.__init__: the Worker keeps the list object it is given (files is
\* not copied), the mode and the key.  pc, i and combined are the position
\* of run() and the locals of extract_and_merge; at_start is an observation,
\* the content of the list when the Worker was constructed, kept until
\* extract_and_merge has returned.
\* call holds the arguments of the backend call in flight (summarize_text or
\* generate_flashcards); cfg_at_start is an observation, the configuration
\* generate loaded.
NoCall == [stage |-> "none", mode |-> "", key |-> ""]

NewWorker(fs, c) ==
    [ llm_mode |-> c.llm_mode, gemini_key |-> c.gemini_api_key, cancelled |-> FALSE,
      pc |-> "start", i |-> 0, combined |-> <<>>, call |-> NoCall,
      at_start |-> fs, cfg_at_start |-> c ]

\* extract_and_merge has returned a text that is not blank: its locals are
\* gone, run() goes on to clean_text (the texts themselves are not kept)
merge_returned(me) ==
    [me EXCEPT !.pc = "clean", !.i = 0, !.combined = <<>>, !.at_start = <<>>]

\* run() has returned: its locals are gone
run_returned(me) ==
    [me EXCEPT !.pc = "done", !.i = 0, !.combined = <<>>, !.call = NoCall,
               !.at_start = <<>>]

\* a worker's thread runs until run() has returned and the signal it emitted
\* has been handled
ThreadRunning(w) ==
    \/ workers[w].pc # "done"
    \/ \E k \in 1..Len(signals) : signals[k].w = w

AppIdle ==
    /\ app = "idle"
    /\ files = <<>>
    /\ cfg = DEFAULT_CONFIG
    /\ generate_btn = FALSE
    /\ stop_btn = FALSE
    /\ add_btn = TRUE
    /\ worker = 0
    /\ workers = <<>>
    /\ signals = <<>>

\* lines 837-843
lock_ui ==
    /\ generate_btn' = FALSE
    /\ stop_btn' = TRUE
    /\ add_btn' = FALSE

\* lines 845-851 (no handler that unlocks changes files)
unlock_ui ==
    /\ generate_btn' = (files # <<>>)
    /\ stop_btn' = FALSE
    /\ add_btn' = TRUE

\* add_files(paths) with one path, reached from the Add Files button
\* (open_files) or from dropEvent, which no button state guards
AddFiles ==
    \E via \in {"button", "drop"}, p \in Paths :
        /\ app = "running"
        /\ via = "button" => add_btn
        /\ files' = IF p \in Range(files) THEN files ELSE Append(files, p)
        /\ generate_btn' = TRUE
        /\ UNCHANGED <<app, cfg, stop_btn, add_btn, worker, workers, signals>>
        /\ UNCHANGED notApp

\* remove_selected with an item selected (remove_btn is enabled)
RemoveSelected ==
    \E p \in Range(files) :
        /\ app = "running"
        /\ add_btn
        /\ files' = list_remove(files, p)
        /\ generate_btn' = (files' # <<>>)
        /\ UNCHANGED <<app, cfg, stop_btn, add_btn, worker, workers, signals>>
        /\ UNCHANGED notApp

\* clear_files (clear_btn is enabled)
ClearFiles ==
    /\ app = "running"
    /\ add_btn
    /\ files' = <<>>
    /\ generate_btn' = FALSE
    /\ UNCHANGED <<app, cfg, stop_btn, add_btn, worker, workers, signals>>
    /\ UNCHANGED notApp

\* open_settings, then SettingsDialog.save (settings_btn is enabled)
SaveSettings ==
    \E c \in Configs :
        /\ app = "running"
        /\ add_btn
        /\ cfg' = c
        /\ UNCHANGED <<app, files, generate_btn, stop_btn, add_btn, worker, workers,
                       signals>>
        /\ UNCHANGED notApp

\* generate is entered from the button or from the window's Return shortcut
\* and goes on past line 992 when the queue is not empty
GenerateEntered ==
    \E via \in {"button", "return"} :
        /\ app = "running"
        /\ via = "button" => generate_btn
        /\ files # <<>>

\* lines 990-997 in local mode: the main thread calls ollama_has_model() and
\* has_model is what it answers; app is then "probed" or "no_model" until
\* generate goes on (worker threads run meanwhile, the main thread handles
\* nothing else)
GenerateProbe ==
    \E has_model \in BOOLEAN :
        /\ GenerateEntered
        /\ cfg.llm_mode = "ollama"
        /\ Len(workers) < MaxRuns
        /\ app' = IF has_model THEN "probed" ELSE "no_model"
        /\ UNCHANGED <<files, cfg, generate_btn, stop_btn, add_btn, worker, workers,
                       signals>>
        /\ UNCHANGED notApp

\* lines 997-1005: the probe answered false; the warning is shown and generate
\* returns
GenerateNoModel ==
    /\ app = "no_model"
    /\ app' = "running"
    /\ UNCHANGED <<files, cfg, generate_btn, stop_btn, add_btn, worker, workers,
                   signals>>
    /\ UNCHANGED notApp

\* line 997: generate goes on to lock_ui in remote mode without a probe, in
\* local mode after the probe answered true
PastProbe_unprobed ==
    \/ GenerateEntered
    \/ app = "probed"
PastProbe ==
    \/ GenerateEntered /\ cfg.llm_mode # "ollama"
    \/ app = "probed"

\* generate, lines 1007-1027: lock the front end, make the Worker, start its
\* thread
Generate ==
    /\ PastProbe
    /\ Len(workers) < MaxRuns
    /\ lock_ui
    /\ workers' = Append(workers, NewWorker(files, cfg))
    /\ worker' = Len(workers) + 1
    /\ app' = "running"
    /\ UNCHANGED <<files, cfg, signals>>
    /\ UNCHANGED notApp

\* generate while the previous worker thread still runs: rebinding
\* worker_thread drops the last reference to a running QThread, which may
\* end the process instead of leaving the old run going
GenerateAbort ==
    /\ PastProbe
    /\ worker # 0
    /\ ThreadRunning(worker)
    /\ app' = "aborted"
    /\ UNCHANGED <<files, cfg, generate_btn, stop_btn, add_btn, worker, workers,
                   signals>>
    /\ UNCHANGED notApp

\* stop_generation, from the button or from the window's Escape shortcut
StopGeneration ==
    \E via \in {"button", "escape"} :
        /\ app = "running"
        /\ via = "button" => stop_btn
        /\ workers' =
             IF worker = 0 THEN workers
             ELSE [workers EXCEPT ![worker].cancelled = TRUE]
        /\ unlock_ui
        /\ UNCHANGED <<app, files, cfg, worker, signals>>
        /\ UNCHANGED notApp

\* on_done, run by the main thread for a queued finished signal
OnDone ==
    /\ app = "running"
    /\ signals # <<>>
    /\ Head(signals).sig = "finished"
    /\ signals' = Tail(signals)
    /\ unlock_ui
    /\ UNCHANGED <<app, files, cfg, worker, workers>>
    /\ UNCHANGED notApp

\* on_error, run by the main thread for a queued error signal
OnError ==
    /\ app = "running"
    /\ signals # <<>>
    /\ Head(signals).sig = "error"
    /\ signals' = Tail(signals)
    /\ unlock_ui
    /\ UNCHANGED <<app, files, cfg, worker, workers>>
    /\ UNCHANGED notApp

\* the process has not been ended; worker threads go on while the main thread
\* is inside generate
ProcessAlive == app \in {"running", "probed", "no_model"}

\* ---- Worker.run, one action per step between two points where the main
\* ---- thread can act

FinishedSig(w) == [sig |-> "finished", w |-> w, msg |-> ""]
ErrorSig(w, m) == [sig |-> "error", w |-> w, msg |-> m]

\* summarize_text and generate_flashcards can return only if the router
\* accepts the key (llm_router.py lines 12-14)
BackendCanReturn(me) == ~(me.call.mode = "gemini" /\ falsy(me.call.key))

\* lines 172 and 179: the mode and key passed to summarize_text and to
\* generate_flashcards are the Worker's own fields
backend_args_reloaded(me, stage) ==
    [stage |-> stage, mode |-> cfg.llm_mode, key |-> cfg.gemini_api_key]
backend_args(me, stage) ==
    [stage |-> stage, mode |-> me.llm_mode, key |-> me.gemini_key]

\* the documents extract_and_merge has read
docs_of(combined) ==
    [k \in 1..Len(combined) |->
        [name |-> basename(combined[k]), text |-> extracted(combined[k])]]

\* lines 150-157: first cancellation check, then the call of extract_and_merge
WorkerStart ==
    \E w \in 1..Len(workers) :
        LET me == workers[w] IN
        /\ ProcessAlive
        /\ me.pc = "start"
        /\ workers' =
             IF me.cancelled
             THEN [workers EXCEPT ![w] = run_returned(me)]
             ELSE [workers EXCEPT ![w].pc = "merge"]
        /\ UNCHANGED <<app, files, cfg, generate_btn, stop_btn, add_btn, worker,
                       signals>>
        /\ UNCHANGED notApp

\* line 157, multi_extractor.py lines 14-28: one turn of `for path in files`
\* over the shared list
WorkerExtract ==
    \E w \in 1..Len(workers) :
        LET me == workers[w] IN
        /\ ProcessAlive
        /\ me.pc = "merge"
        /\ me.i < Len(files)
        /\ workers' = [workers EXCEPT ![w].i = me.i + 1,
                                      ![w].combined = Append(@, files[me.i + 1])]
        /\ UNCHANGED <<app, files, cfg, generate_btn, stop_btn, add_btn, worker,
                       signals>>
        /\ UNCHANGED notApp

\* an extractor raises (unreadable file): lines 190-191
WorkerExtractRaised ==
    \E w \in 1..Len(workers) :
        LET me == workers[w] IN
        /\ ProcessAlive
        /\ me.pc = "merge"
        /\ me.i < Len(files)
        /\ workers' = [workers EXCEPT ![w] = run_returned(me)]
        /\ signals' = Append(signals, ErrorSig(w, "extraction failed"))
        /\ UNCHANGED <<app, files, cfg, generate_btn, stop_btn, add_btn, worker>>
        /\ UNCHANGED notApp

\* the loop ends; lines 158-163: "No text extracted" or on to clean_text
WorkerMerged ==
    \E w \in 1..Len(workers) :
        LET me  == workers[w]
            raw == extract_and_merge(docs_of(me.combined))
        IN
        /\ ProcessAlive
        /\ me.pc = "merge"
        /\ me.i >= Len(files)
        /\ IF strip(raw) = <<>>
           THEN /\ workers' = [workers EXCEPT ![w] = run_returned(me)]
                /\ signals' = Append(signals, ErrorSig(w, "No text extracted"))
           ELSE /\ workers' = [workers EXCEPT ![w] = merge_returned(me)]
                /\ UNCHANGED signals
        /\ UNCHANGED <<app, files, cfg, generate_btn, stop_btn, add_btn, worker>>
        /\ UNCHANGED notApp

\* lines 164-172: clean_text returns, second cancellation check, then the
\* call of summarize_text
WorkerCleaned ==
    \E w \in 1..Len(workers) :
        LET me == workers[w] IN
        /\ ProcessAlive
        /\ me.pc = "clean"
        /\ workers' =
             IF me.cancelled
             THEN [workers EXCEPT ![w] = run_returned(me)]
             ELSE [workers EXCEPT ![w].pc = "summarize",
                                  ![w].call = backend_args(me, "summarize")]
        /\ UNCHANGED <<app, files, cfg, generate_btn, stop_btn, add_btn, worker,
                       signals>>
        /\ UNCHANGED notApp

\* lines 172-179: summarize_text returns, third cancellation check, then the
\* call of generate_flashcards
WorkerSummarized ==
    \E w \in 1..Len(workers) :
        LET me == workers[w] IN
        /\ ProcessAlive
        /\ me.pc = "summarize"
        /\ BackendCanReturn(me)
        /\ workers' =
             IF me.cancelled
             THEN [workers EXCEPT ![w] = run_returned(me)]
             ELSE [workers EXCEPT ![w].pc = "flashcards",
                                  ![w].call = backend_args(me, "flashcards")]
        /\ UNCHANGED <<app, files, cfg, generate_btn, stop_btn, add_btn, worker,
                       signals>>
        /\ UNCHANGED notApp

\* summarize_text raises: lines 190-191
WorkerSummarizeRaised ==
    \E w \in 1..Len(workers) :
        LET me == workers[w] IN
        /\ ProcessAlive
        /\ me.pc = "summarize"
        /\ workers' = [workers EXCEPT ![w] = run_returned(me)]
        /\ signals' = Append(signals, ErrorSig(w, "backend failed"))
        /\ UNCHANGED <<app, files, cfg, generate_btn, stop_btn, add_btn, worker>>
        /\ UNCHANGED notApp

\* lines 179-188: generate_flashcards returns and finished is emitted; there
\* is no cancellation check on this path
WorkerFlashcards ==
    \E w \in 1..Len(workers) :
        LET me == workers[w] IN
        /\ ProcessAlive
        /\ me.pc = "flashcards"
        /\ BackendCanReturn(me)
        /\ workers' = [workers EXCEPT ![w] = run_returned(me)]
        /\ signals' = Append(signals, FinishedSig(w))
        /\ UNCHANGED <<app, files, cfg, generate_btn, stop_btn, add_btn, worker>>
        /\ UNCHANGED notApp

\* generate_flashcards raises: lines 190-191
WorkerFlashcardsRaised ==
    \E w \in 1..Len(workers) :
        LET me == workers[w] IN
        /\ ProcessAlive
        /\ me.pc = "flashcards"
        /\ workers' = [workers EXCEPT ![w] = run_returned(me)]
        /\ signals' = Append(signals, ErrorSig(w, "backend failed"))
        /\ UNCHANGED <<app, files, cfg, generate_btn, stop_btn, add_btn, worker>>
        /\ UNCHANGED notApp

-----------------------------------------------------------------------------
(* Flashcard parsing: generate_flashcards, summarizer.py lines 146-158 *)

\* q = None
NoQuestion == <<>>

\* `... and q`: q is neither None nor the empty string
truthy_not_none(q) == q # NoQuestion
truthy(q) == q # NoQuestion /\ q[1] # <<>>

QPrefix == <<"Q", ":">>
APrefix == <<"A", ":">>

\* line[2:].strip()
after_prefix(line) == strip(SubSeq(line, 3, Len(line)))

CardsIdle ==
    /\ c_pc = "idle"
    /\ c_raw = <<>>
    /\ c_lines = <<>>
    /\ c_k = 1
    /\ c_q = NoQuestion
    /\ c_cards = <<>>

\* lines 143-146: cards = [], q = None, raw.splitlines()
CardsSplit ==
    /\ c_pc = "called"
    /\ c_lines' = splitlines(c_raw)
    /\ c_k' = 1
    /\ c_q' = NoQuestion
    /\ c_cards' = <<>>
    /\ c_pc' = "loop"
    /\ UNCHANGED c_raw
    /\ UNCHANGED notCards

\* lines 147-149: the stripped line starts with "Q:"
CardsQuestion ==
    /\ c_pc = "loop"
    /\ c_k <= Len(c_lines)
    /\ LET line == strip(c_lines[c_k]) IN
         /\ startswith(line, QPrefix)
         /\ c_q' = <<after_prefix(line)>>
    /\ c_k' = c_k + 1
    /\ UNCHANGED <<c_pc, c_raw, c_lines, c_cards>>
    /\ UNCHANGED notCards

\* lines 150-153: the stripped line starts with "A:" and q is truthy
CardsAnswer ==
    /\ c_pc = "loop"
    /\ c_k <= Len(c_lines)
    /\ LET line == strip(c_lines[c_k]) IN
         /\ ~startswith(line, QPrefix)
         /\ startswith(line, APrefix)
         /\ truthy(c_q)
         /\ c_cards' = Append(c_cards, <<c_q[1], after_prefix(line)>>)
    /\ c_q' = NoQuestion
    /\ c_k' = c_k + 1
    /\ UNCHANGED <<c_pc, c_raw, c_lines>>
    /\ UNCHANGED notCards

\* lines 147-153: neither branch is taken
CardsSkip ==
    /\ c_pc = "loop"
    /\ c_k <= Len(c_lines)
    /\ LET line == strip(c_lines[c_k]) IN
         /\ ~startswith(line, QPrefix)
         /\ ~(startswith(line, APrefix) /\ truthy(c_q))
    /\ c_k' = c_k + 1
    /\ UNCHANGED <<c_pc, c_raw, c_lines, c_q, c_cards>>
    /\ UNCHANGED notCards

\* line 158: return cards
CardsReturn_flush_pending ==
    /\ c_pc = "loop"
    /\ c_k > Len(c_lines)
    /\ c_cards' = IF c_q = NoQuestion THEN c_cards ELSE Append(c_cards, <<c_q[1], <<>>>>)
    /\ c_pc' = "returned"
    /\ UNCHANGED <<c_raw, c_lines, c_k, c_q>>
    /\ UNCHANGED notCards
CardsReturn ==
    /\ c_pc = "loop"
    /\ c_k > Len(c_lines)
    /\ c_pc' = "returned"
    /\ UNCHANGED <<c_raw, c_lines, c_k, c_q, c_cards>>
    /\ UNCHANGED notCards

-----------------------------------------------------------------------------
(* The post-filter applied to its own output: strip_thinking, lines 29-46 *)

FilterIdle ==
    /\ f_pc = "idle"
    /\ f_in = <<>>
    /\ f_once = <<>>
    /\ f_twice = <<>>

FilterOnce ==
    /\ f_pc = "start"
    /\ f_once' = strip_thinking(f_in)
    /\ f_pc' = "once"
    /\ UNCHANGED <<f_in, f_twice>>
    /\ UNCHANGED notFilter

FilterTwice ==
    /\ f_pc = "once"
    /\ f_twice' = strip_thinking(f_once)
    /\ f_pc' = "twice"
    /\ UNCHANGED <<f_in, f_once>>
    /\ UNCHANGED notFilter

-----------------------------------------------------------------------------
(* The availability probe: ollama_has_model, ollama_client.py lines 10-62 *)

ReturnedBool(b) == [kind |-> "return", value |-> b]

ProbeIdle ==
    /\ h_pc = "idle"
    /\ h_env = <<>>
    /\ h_cli = PyNone
    /\ h_out = Pending

\* _find_ollama_cli: shutil.which first, then the usual install folders
find_ollama_cli(env) ==
    IF env.which # PyNone /\ env.which # "" THEN env.which
    ELSE IF env.installed THEN "ollama.exe"
    ELSE PyNone

\* cli = _find_ollama_cli()
ProbeFindCli ==
    /\ h_pc = "start"
    /\ h_cli' = find_ollama_cli(h_env)
    /\ h_pc' = "cli"
    /\ UNCHANGED <<h_env, h_out>>
    /\ UNCHANGED notProbe

\* `if cli:` is false, the listing is skipped
ProbeNoCli ==
    /\ h_pc = "cli"
    /\ h_cli = PyNone
    /\ h_pc' = "http"
    /\ UNCHANGED <<h_env, h_cli, h_out>>
    /\ UNCHANGED notProbe

\* `ollama list` ended with code 0 and printed something: return True
ProbeListTrue ==
    /\ h_pc = "cli"
    /\ h_cli # PyNone
    /\ h_env.list.kind = "exit"
    /\ h_env.list.returncode = 0 /\ strip(h_env.list.stdout) # <<>>
    /\ h_out' = ReturnedBool(TRUE)
    /\ h_pc' = "done"
    /\ UNCHANGED <<h_env, h_cli>>
    /\ UNCHANGED notProbe

\* `ollama list` ended otherwise: fall through to the REST fallback
ProbeListFalse ==
    /\ h_pc = "cli"
    /\ h_cli # PyNone
    /\ h_env.list.kind = "exit"
    /\ ~(h_env.list.returncode = 0 /\ strip(h_env.list.stdout) # <<>>)
    /\ h_pc' = "http"
    /\ UNCHANGED <<h_env, h_cli, h_out>>
    /\ UNCHANGED notProbe

ProbeListRaised_propagates ==
    /\ h_pc = "cli"
    /\ h_cli # PyNone
    /\ h_env.list.kind = "raise"
    /\ h_out' = Raised(h_env.list.exc, "")
    /\ h_pc' = "done"
    /\ UNCHANGED <<h_env, h_cli>>
    /\ UNCHANGED notProbe

\* subprocess.run raised (TimeoutExpired, OSError): `except Exception: pass`
ProbeListRaised ==
    /\ h_pc = "cli"
    /\ h_cli # PyNone
    /\ h_env.list.kind = "raise"
    /\ h_pc' = "http"
    /\ UNCHANGED <<h_env, h_cli, h_out>>
    /\ UNCHANGED notProbe

\* return bool(_ollama_http_models())
ProbeHttp ==
    /\ h_pc = "http"
    /\ h_out' = ReturnedBool(ollama_http_models(h_env.http.reply) # <<>>)
    /\ h_pc' = "done"
    /\ UNCHANGED <<h_env, h_cli>>
    /\ UNCHANGED notProbe

-----------------------------------------------------------------------------
(* Specification of one gemini_summarize call *)

InitGemini ==
    /\ g_pc = "entry"
    /\ api_key \in {"", "key"}
    /\ max_retries \in 0..MaxRetriesBound
    /\ attempt = 0
    /\ g_trace = <<>>
    /\ g_out = Pending
    /\ OllamaIdle
    /\ SumIdle
    /\ PipeIdle
    /\ AppIdle
    /\ CardsIdle
    /\ FilterIdle
    /\ ProbeIdle

NextGemini ==
    \/ GeminiKeyNotSet
    \/ GeminiConfigure
    \/ GeminiReturn
    \/ GeminiEmpty
    \/ GeminiRetry
    \/ GeminiQuotaExceeded
    \/ GeminiOtherError
    \/ GeminiLoopExhausted

SpecGemini == InitGemini /\ [][NextGemini]_vars

-----------------------------------------------------------------------------
(* Specification of one summarize_text call, with the router and clients *)

SumDocs == { [name |-> <<"a">>, text |-> <<"x">>],
             [name |-> <<"b">>, text |-> <<>>] }

SummarizeTexts ==
    {extract_and_merge(d) : d \in SeqsUpTo(SumDocs, MaxSumDocs)} \cup { <<"x">>, <<" ">> }

InitSummarize ==
    /\ s_pc = "entry"
    /\ text \in SummarizeTexts
    /\ mode \in {"ollama", "gemini", "openai"}
    /\ gemini_key \in {PyNone, "", "key"}
    /\ chunks = <<>>
    /\ summaries = <<>>
    /\ idx = 1
    /\ s_log = <<>>
    /\ s_out = Pending
    /\ GeminiIdle
    /\ OllamaIdle
    /\ PipeIdle
    /\ AppIdle
    /\ CardsIdle
    /\ FilterIdle
    /\ ProbeIdle

NextSummarize ==
    \/ SummarizeEntry
    \/ RouterKeyNotSet
    \/ RouterToGemini
    \/ RouterToOllama
    \/ RouterInvalidMode
    \/ SummarizeChunkDone
    \/ SummarizeChunkRaised
    \/ SummarizeJoin
    \/ GeminiConfigure
    \/ GeminiReturn
    \/ GeminiEmpty
    \/ GeminiRetry
    \/ GeminiQuotaExceeded
    \/ GeminiOtherError
    \/ OllamaCliTimeout
    \/ OllamaCliSpawnFault
    \/ OllamaCliNonzero
    \/ OllamaCliExit0
    \/ OllamaHttpFault
    \/ OllamaHttpError
    \/ OllamaHttpResponse

SpecSummarize == InitSummarize /\ [][NextSummarize]_vars

-----------------------------------------------------------------------------
(* Specification of merge, clean and chunk over bounded inputs *)

\* texts an extractor can return: empty, plain, with runs of spaces, with a
\* blank line, and unstripped or blank as optical recognition returns them
DocTexts ==
    { <<>>,
      <<"x">>,
      <<"x", " ", " ", "y">>,
      <<"x", "\n", " ", "\n", "y">>,
      <<" ", "x", "\n">>,
      <<"\n">> }

DocNames == { <<"a">>, <<"b">> }

InitPipeline ==
    /\ p_pc = "start"
    /\ p_docs \in SeqsUpTo([name : DocNames, text : DocTexts], MaxDocs)
    /\ p_max \in (1..MaxCharsBound) \cup {DefaultMaxChars}
    /\ p_raw = <<>>
    /\ p_cleaned = <<>>
    /\ p_chunks = <<>>
    /\ GeminiIdle
    /\ OllamaIdle
    /\ SumIdle
    /\ AppIdle
    /\ CardsIdle
    /\ FilterIdle
    /\ ProbeIdle

NextPipeline ==
    \/ PipeMerge
    \/ PipeChunkRaw
    \/ PipeClean
    \/ PipeChunkCleaned

SpecPipeline == InitPipeline /\ [][NextPipeline]_vars

-----------------------------------------------------------------------------
(* Specification of the front end with its worker threads *)

InitApp ==
    /\ app = "running"
    /\ files = <<>>
    /\ cfg = DEFAULT_CONFIG
    /\ generate_btn = FALSE
    /\ stop_btn = FALSE
    /\ add_btn = TRUE
    /\ worker = 0
    /\ workers = <<>>
    /\ signals = <<>>
    /\ GeminiIdle
    /\ OllamaIdle
    /\ SumIdle
    /\ PipeIdle
    /\ CardsIdle
    /\ FilterIdle
    /\ ProbeIdle

NextApp ==
    \/ AddFiles
    \/ RemoveSelected
    \/ ClearFiles
    \/ SaveSettings
    \/ GenerateProbe
    \/ GenerateNoModel
    \/ Generate
    \/ GenerateAbort
    \/ StopGeneration
    \/ OnDone
    \/ OnError
    \/ WorkerStart
    \/ WorkerExtract
    \/ WorkerExtractRaised
    \/ WorkerMerged
    \/ WorkerCleaned
    \/ WorkerSummarized
    \/ WorkerSummarizeRaised
    \/ WorkerFlashcards
    \/ WorkerFlashcardsRaised

SpecApp == InitApp /\ [][NextApp]_vars

\* what goes on without the user: a worker thread takes its next step (every
\* extraction and backend call returns or raises), a generate call that has
\* probed goes on, and the main thread handles a queued signal (the event
\* queue is first in, first out, so a signal is not overtaken for ever by
\* user events: strong fairness)
WorkerStep ==
    \/ WorkerStart
    \/ WorkerExtract
    \/ WorkerExtractRaised
    \/ WorkerMerged
    \/ WorkerCleaned
    \/ WorkerSummarized
    \/ WorkerSummarizeRaised
    \/ WorkerFlashcards
    \/ WorkerFlashcardsRaised

SignalHandled == OnDone \/ OnError

GenerateGoesOn ==
    /\ app \in {"probed", "no_model"}
    /\ (GenerateNoModel \/ Generate \/ GenerateAbort)

SpecAppLive ==
    /\ SpecApp
    /\ WF_vars(WorkerStep)
    /\ SF_vars(SignalHandled)
    /\ WF_vars(GenerateGoesOn)


-----------------------------------------------------------------------------
(* Specification of the parsing of one flashcard response *)

\* lines a backend writes: questions and answers with and without text, a
\* line with neither prefix, a question with blanks around it
CardLines ==
    { <<"Q", ":", " ", "a">>,
      <<"Q", ":">>,
      <<"A", ":", " ", "x">>,
      <<"A", ":">>,
      <<"z", "z">>,
      <<" ", "Q", ":", " ", "b", " ">> }

InitCards ==
    /\ c_pc = "called"
    /\ c_raw \in {join(<<"\n">>, ls) : ls \in SeqsUpTo(CardLines, MaxCardLines)}
    /\ c_lines = <<>>
    /\ c_k = 1
    /\ c_q = NoQuestion
    /\ c_cards = <<>>
    /\ GeminiIdle
    /\ OllamaIdle
    /\ SumIdle
    /\ PipeIdle
    /\ AppIdle
    /\ FilterIdle
    /\ ProbeIdle

NextCards ==
    \/ CardsSplit
    \/ CardsQuestion
    \/ CardsAnswer
    \/ CardsSkip
    \/ CardsReturn

SpecCards == InitCards /\ [][NextCards]_vars


-----------------------------------------------------------------------------
(* Specification of the post-filter applied twice *)

\* lines of a backend answer: note lines, meta lines in several spellings
\* (capitals, leading blanks), blank lines
FilterLines ==
    { <<"n">>,
      <<"o", "k", ".">>,
      <<"O", "K", ".", " ", "n">>,
      <<" ", "m", "a", "y", "b", "e">>,
      <<".", ".", ".", "\r">>,
      <<" ">>,
      <<>> }

InitFilter ==
    /\ f_pc = "start"
    /\ f_in \in {join(<<"\n">>, ls) : ls \in SeqsUpTo(FilterLines, MaxFilterLines)}
    /\ f_once = <<>>
    /\ f_twice = <<>>
    /\ GeminiIdle
    /\ OllamaIdle
    /\ SumIdle
    /\ PipeIdle
    /\ AppIdle
    /\ CardsIdle
    /\ ProbeIdle

NextFilter ==
    \/ FilterOnce
    \/ FilterTwice

SpecFilter == InitFilter /\ [][NextFilter]_vars


-----------------------------------------------------------------------------
(* Properties of the remote client (SpecGemini) *)

IsRateLimited(e) == e.resp.type = "exc" /\ is_rate_limit(e.resp.msg)

\* every backend call made so far was answered with a rate-limit signal
RateLimitedOnly == \A i \in 1..Len(GeminiCalls) : IsRateLimited(GeminiCalls[i])

C2_SecondAttemptSucceeds ==
    ( /\ Len(GeminiCalls) >= 2
      /\ IsRateLimited(GeminiCalls[1])
      /\ GeminiCalls[2].resp.type = "text" ) =>
        /\ g_pc = "returned"
        /\ g_out = Returned(strip(GeminiCalls[2].resp.text))
        /\ g_trace = <<GeminiCalls[1], SleepEv(1), GeminiCalls[2]>>

C2_Witness ==
    /\ g_pc = "returned"
    /\ Len(g_trace) = 3
    /\ IsRateLimited(g_trace[1])
    /\ g_trace[2] = SleepEv(1)
    /\ g_trace[3].resp.type = "text"
    /\ g_out.kind = "return"

-----------------------------------------------------------------------------
(* Properties of the router and the orchestrator (SpecSummarize) *)

RouterCalls   == SelectSeq(s_log, LAMBDA e : e.ev = "call")
RouterReturns == SelectSeq(s_log, LAMBDA e : e.ev = "ret")
ClientCalls   == SelectSeq(s_log, LAMBDA e : e.ev = "client")

\* C3: in mode gemini with an absent or empty key, every router call fails
\* with the key-not-set error and neither client is called, so no network
\* call is made.
C3_RouterCredentialGate ==
    (mode = "gemini" /\ gemini_key \in {PyNone, ""}) =>
        /\ ClientCalls = <<>>
        /\ g_pc = "idle" /\ g_trace = <<>>
        /\ o_pc = "idle" /\ o_req = <<>>
        /\ \A i \in 1..Len(s_log) :
             s_log[i].ev = "call" =>
                 /\ i < Len(s_log)
                 /\ s_log[i + 1] =
                        RouterRetEv(s_log[i].chunk, RuntimeError("Gemini API key not set."))
        /\ s_pc = "raised" => s_out = RuntimeError("Gemini API key not set.")

C3_Witness ==
    /\ mode = "gemini"
    /\ gemini_key = ""
    /\ s_pc = "raised"
    /\ Len(RouterCalls) = 1
    /\ ClientCalls = <<>>

\* C4: when the call for chunk k raises, no call is made for a later chunk,
\* no notes are returned (not even those of the chunks before k), and the
\* caller gets the very error the client raised.
C4_ChunkFailureAborts ==
    \A i \in 1..Len(s_log) :
        (s_log[i].ev = "ret" /\ s_log[i].out.kind = "raise") =>
            /\ i = Len(s_log)
            /\ s_pc = "raised"
            /\ s_out = s_log[i].out
            /\ ClientCalls # <<>> =>
                   s_out = (IF ClientCalls[Len(ClientCalls)].name = "gemini"
                            THEN g_out ELSE o_out)

C4_Witness ==
    /\ s_pc = "raised"
    /\ idx = 2
    /\ Len(summaries) = 1
    /\ Len(chunks) >= 3
    /\ s_out.kind = "raise"

RECURSIVE BlankLineJoined(_, _)
BlankLineJoined(parts, k) ==
    IF k = 0 THEN <<>>
    ELSE IF k = 1 THEN parts[1]
    ELSE BlankLineJoined(parts, k - 1) \o <<"\n", "\n">> \o parts[k]

\* C5: a successful run over chunks 1..n calls the router once per chunk, in
\* chunk order, each call after the previous one returned, and the notes are
\* the post-filtered results joined by a blank line in that order.
C5_SequentialInOrder ==
    s_pc = "returned" =>
        LET n == Len(chunks)
            filtered == [k \in 1..n |-> strip_thinking(RouterReturns[k].out.text)]
        IN  /\ Len(s_log) = 3 * n
            /\ \A k \in 1..n :
                 /\ s_log[3 * k - 2] = RouterCallEv(k, build_prompt(chunks[k]))
                 /\ s_log[3 * k - 1].ev = "client"
                 /\ s_log[3 * k].ev = "ret"
                 /\ s_log[3 * k].chunk = k
                 /\ s_log[3 * k].out.kind = "return"
            /\ s_out = Returned(BlankLineJoined(filtered, n))

C5_Witness ==
    /\ s_pc = "returned"
    /\ Len(chunks) = 3
    /\ summaries[1] # summaries[2]
    /\ \E k \in 1..3 : RouterReturns[k].out.text # summaries[k]

-----------------------------------------------------------------------------
(* Properties of merge, clean and chunk (SpecPipeline) *)

\* number of occurrences of p in s, as str.split counts them
CountOcc(s, p) == Len(split(s, p)) - 1

RECURSIVE ConcatRange(_, _, _)
ConcatRange(parts, lo, hi) ==
    IF lo > hi THEN <<>>
    ELSE IF lo = hi THEN parts[lo]
    ELSE LET mid == (lo + hi) \div 2
         IN  ConcatRange(parts, lo, mid) \o ConcatRange(parts, mid + 1, hi)

Concat(parts) == ConcatRange(parts, 1, Len(parts))

\* s without its whitespace characters
Squeeze(s) == SelectSeq(s, LAMBDA c : ~IsSpace(c))

\* C6: in a full run (merge, clean, chunk with the default bound) the chunker
\* finds one marker token per document in the cleaned text, and no chunk
\* holds the marker line of more than one document.
C6_MarkersSurviveCleaning ==
    (p_pc = "chunked" /\ p_max = DefaultMaxChars /\ p_docs # <<>>) =>
        /\ CountOcc(p_cleaned, FileToken) = Len(p_docs)
        /\ \A k \in 1..Len(p_chunks) :
             CountOcc(p_chunks[k], <<"F", "I", "L", "E", ":">>) <= 1

C8_BoundedChunkSize ==
    p_pc \in {"chunked_raw", "chunked"} =>
        \A k \in 1..Len(p_chunks) :
            Len(p_chunks[k]) >= 1 /\ Len(p_chunks[k]) <= p_max

C8_Witness ==
    /\ p_pc = "chunked_raw"
    /\ p_docs # <<>>
    /\ Len(p_chunks) > Len(p_docs)
    /\ \E k \in 1..Len(p_chunks) :
         startswith(p_chunks[k], FileToken) /\ Len(p_chunks[k]) = p_max

\* a step in which run() of worker w enters a stage
StageEntered(w) ==
    /\ workers'[w].pc # workers[w].pc
    /\ workers'[w].pc \in {"merge", "clean", "summarize", "flashcards"}

\* a step in which worker w emits finished
FinishedEmitted(w) ==
    /\ Len(signals') = Len(signals) + 1
    /\ signals'[Len(signals')] = FinishedSig(w)

\* C9: once cancellation has been requested for a run, the call in flight
\* completes but the run enters no later stage and emits no finished result
\* for the front end.
C9_CancelDiscardsResult ==
    [][\A w \in 1..Len(workers) :
          workers[w].cancelled => ~StageEntered(w) /\ ~FinishedEmitted(w)]_vars

\* C10: the files extract_and_merge has read when it returns are the queue as
\* it was when the run was started, whatever was added to or removed from the
\* queue in between.
C10_RunReadsQueueAtStart ==
    [][\A w \in 1..Len(workers) :
          (workers[w].pc = "merge" /\ workers[w].i >= Len(files)
                /\ workers'[w].pc # "merge")
            => workers[w].combined = workers[w].at_start]_vars

\* C11: every backend call of a run (the summarize_text call, whose chunk
\* calls all get the same arguments, and the generate_flashcards call) is made
\* with the mode and key that generate loaded when it started the run, also
\* when the saved configuration has changed since.
C11_ConfigReadOnce ==
    \A w \in 1..Len(workers) :
        workers[w].call # NoCall =>
            /\ workers[w].call.mode = workers[w].cfg_at_start.llm_mode
            /\ workers[w].call.key = workers[w].cfg_at_start.gemini_api_key

C11_Witness ==
    \E w \in 1..Len(workers) :
        /\ workers[w].call.stage = "flashcards"
        /\ cfg.llm_mode # workers[w].cfg_at_start.llm_mode
        /\ cfg.gemini_api_key # workers[w].cfg_at_start.gemini_api_key

-----------------------------------------------------------------------------
(* Further properties of one gemini_summarize call (SpecGemini) *)

C13_OtherErrorSurfaced ==
    \A j \in 1..Len(g_trace) :
        ( /\ g_trace[j].ev = "call"
          /\ g_trace[j].resp.type = "exc"
          /\ ~is_rate_limit(g_trace[j].resp.msg) ) =>
            /\ j = Len(g_trace)
            /\ g_pc = "raised"
            /\ g_out = BackendError(g_trace[j].resp.msg)

C13_Witness ==
    /\ g_pc = "raised"
    /\ Len(GeminiCalls) = 2
    /\ GeminiCalls[2].resp.type = "exc"
    /\ ~is_rate_limit(GeminiCalls[2].resp.msg)
    /\ g_out = BackendError("503 Service unavailable")
    /\ max_retries - Len(GeminiCalls) >= 1

-----------------------------------------------------------------------------
(* Further properties of the clients under the router (SpecSummarize) *)

\* C14: a text returned by a backend client as its result is never empty, for
\* the remote client and for the local client (binary path and HTTP path).
C14_ReturnedTextNonEmpty ==
    /\ g_out.kind = "return" => g_out.text # <<>>
    /\ o_out.kind = "return" => o_out.text # <<>>

\* C22: with a mode that is neither "gemini" nor "ollama" the router raises,
\* the exception is of the kind raised for a missing key, and no client has
\* been called.
C22_InvalidModeSameKind ==
    (s_pc = "raised" /\ mode \notin {"gemini", "ollama"}) =>
        /\ s_out.kind = "raise"
        /\ s_out.exc = RuntimeError(KeyNotSetMsg).exc
        /\ \A k \in 1..Len(s_log) : s_log[k].ev # "client"

\* C23: a call of the local client that ran the binary has ended in one of
\* three ways: the timeout error, the generation error (nonzero exit or
\* empty output), or the output returned.
C23_CliOutcomes ==
    (o_req = <<CliRun>> /\ o_pc \in {"raised", "returned"}) =>
        \/ o_out.kind = "return"
        \/ /\ o_out.kind = "raise"
           /\ o_out.exc = "RuntimeError"
           /\ o_out.msg \in {"Ollama model timed out", "stderr", "Ollama failed",
                              "Ollama returned empty response"}

\* C24: on the HTTP path the model named in the generate request is the
\* default name when the enumerated list holds it, else the first enumerated
\* name when there is one, else the default name; an unreachable service
\* counts as the empty list.
C24_ModelSelection ==
    (Len(o_req) = 2 /\ o_req[1].op = "http_tags") =>
        LET names == ollama_http_models(o_req[1].reply)
            sent  == o_req[2].model
        IN  /\ o_req[2].op = "http_generate"
            /\ (\E k \in 1..Len(names) : names[k] = DEFAULT_MODEL) => sent = DEFAULT_MODEL
            /\ (names # <<>> /\ \A k \in 1..Len(names) : names[k] # DEFAULT_MODEL)
                  => sent = names[1]
            /\ names = <<>> => sent = DEFAULT_MODEL
            /\ ~o_req[1].reply.ok => names = <<>>

\* the default model is enumerated, but not first
C24_Witness ==
    /\ o_pc = "returned"
    /\ Len(o_req) = 2
    /\ o_req[1].op = "http_tags"
    /\ o_req[1].reply.models = <<"mistral:7b", "llama3:latest">>
    /\ o_req[2].model = DEFAULT_MODEL

-----------------------------------------------------------------------------
(* Properties of flashcard parsing (SpecCards) *)

\* the line the loop is at, stripped, and its kind
CardLine == strip(c_lines[c_k])
IsQLine(l) == startswith(l, QPrefix)
IsALine(l) == ~startswith(l, QPrefix) /\ startswith(l, APrefix)

\* a step of the loop over the response lines
CardLoopStep == c_pc = "loop" /\ c_k <= Len(c_lines) /\ c_k' = c_k + 1

\* C15 as stated: a Q: line makes its text the pending question and emits
\* nothing; an A: line after any Q: line (a question is pending) appends
\* (question, answer) and clears the pending question; a line with neither
\* prefix changes neither the pending question nor the result.
C15_TwoStateParser ==
    [][CardLoopStep =>
          /\ IsQLine(CardLine) =>
                c_q' = <<after_prefix(CardLine)>> /\ c_cards' = c_cards
          /\ (IsALine(CardLine) /\ c_q # NoQuestion) =>
                /\ c_cards' = Append(c_cards, <<c_q[1], after_prefix(CardLine)>>)
                /\ c_q' = NoQuestion
          /\ (~IsQLine(CardLine) /\ ~IsALine(CardLine)) =>
                c_q' = c_q /\ c_cards' = c_cards]_vars

\* C15 as amended: as above, but an A: line closes a pair only when the
\* pending question's text is not empty; an A: line met with no pending
\* question or with an empty one changes nothing.
C15_TwoStateParserNonEmptyQuestion ==
    [][CardLoopStep =>
          /\ IsQLine(CardLine) =>
                c_q' = <<after_prefix(CardLine)>> /\ c_cards' = c_cards
          /\ (IsALine(CardLine) /\ c_q # NoQuestion /\ c_q[1] # <<>>) =>
                /\ c_cards' = Append(c_cards, <<c_q[1], after_prefix(CardLine)>>)
                /\ c_q' = NoQuestion
          /\ (IsALine(CardLine) /\ (c_q = NoQuestion \/ c_q[1] = <<>>)) =>
                c_q' = c_q /\ c_cards' = c_cards
          /\ (~IsQLine(CardLine) /\ ~IsALine(CardLine)) =>
                c_q' = c_q /\ c_cards' = c_cards]_vars

C15_Witness ==
    /\ c_pc = "returned"
    /\ c_lines = << <<"Q", ":">>, <<"A", ":", " ", "x">>, <<"z", "z">>,
                    <<"Q", ":", " ", "a">>, <<"A", ":", " ", "x">> >>
    /\ c_cards = << << <<"a">>, <<"x">> >> >>

\* line j is the first A: line after the Q: line i, with no Q: line between
ClosedBy(i, j) ==
    /\ i < j
    /\ j <= Len(c_lines)
    /\ IsQLine(strip(c_lines[i]))
    /\ IsALine(strip(c_lines[j]))
    /\ \A h \in (i + 1)..(j - 1) :
          ~IsQLine(strip(c_lines[h])) /\ ~IsALine(strip(c_lines[h]))

\* C16: the cards come from distinct Q: lines in the order of those lines,
\* each made of its Q: line's text and the text of the A: line that follows it
\* before any other Q: line; a Q: line not followed by such an A: line gives
\* no card.
C16_CardsInOrderNoPartial ==
    c_pc \in {"loop", "returned"} =>
        \E f \in [1..Len(c_cards) -> 1..Len(c_lines)] :
            /\ \A k \in 1..(Len(c_cards) - 1) : f[k] < f[k + 1]
            /\ \A k \in 1..Len(c_cards) :
                  \E j \in 1..Len(c_lines) :
                      /\ ClosedBy(f[k], j)
                      /\ c_cards[k] = << after_prefix(strip(c_lines[f[k]])),
                                         after_prefix(strip(c_lines[j])) >>

\* two complete pairs followed by a trailing Q: line give exactly two cards
C16_Witness ==
    /\ c_pc = "returned"
    /\ c_lines = << <<"Q", ":", " ", "a">>, <<"A", ":", " ", "x">>,
                    <<" ", "Q", ":", " ", "b", " ">>, <<"A", ":">>,
                    <<"Q", ":", " ", "a">> >>
    /\ c_cards = << << <<"a">>, <<"x">> >>, << <<"b">>, <<>> >> >>

-----------------------------------------------------------------------------
(* Properties of the post-filter (SpecFilter) *)

\* C17: applying strip_thinking to its own output changes nothing.
C17_FilterIdempotent ==
    f_pc = "twice" => f_twice = f_once

C17_Witness ==
    /\ f_pc = "twice"
    /\ f_once # f_in
    /\ f_once # <<>>
    /\ Len(splitlines(f_once)) < Len(splitlines(f_in))
    /\ f_twice = f_once

\* the lines of the input that do not begin (lower-cased, trimmed) with a
\* reasoning-marker prefix, in their order
OtherLines == SelectSeq(splitlines(f_in), LAMBDA line : ~is_meta_line(line))

\* ls without its leading and trailing blank lines, the first remaining line
\* without its leading whitespace and the last without its trailing whitespace
TrimmedEnds(ls) ==
    LET solid == {k \in 1..Len(ls) : strip(ls[k]) # <<>>} IN
    IF solid = {} THEN <<>>
    ELSE LET first == CHOOSE k \in solid : \A j \in solid : k <= j
             last  == CHOOSE k \in solid : \A j \in solid : k >= j
         IN  [k \in 1..(last - first + 1) |->
                LET line == ls[first + k - 1]
                    l    == IF k = 1 THEN lstrip(line) ELSE line
                IN  IF first + k - 1 = last THEN rstrip(l) ELSE l]

\* C27 as stated: the lines of the output are the lines of the input that are
\* not reasoning lines, every one of them (blank, leading and trailing lines
\* too) unchanged and in order.
C27_OtherLinesUnchanged ==
    f_pc \in {"once", "twice"} => splitlines(f_once) = OtherLines

\* C27 as amended: the lines of the output are the lines of the input that are
\* not reasoning lines, in order and unchanged, except at the two ends of the
\* text: blank lines before the first and after the last non-blank line are
\* gone, and so is the whitespace before the first and after the last
\* character of the text.
C27_OtherLinesUnchangedInside ==
    f_pc \in {"once", "twice"} => splitlines(f_once) = TrimmedEnds(OtherLines)

\* a reasoning line is removed, a blank line at an end of the text is dropped,
\* and two lines are left
C27_Witness ==
    /\ f_pc = "once"
    /\ Len(OtherLines) < Len(splitlines(f_in))
    /\ Len(splitlines(f_once)) < Len(OtherLines)
    /\ Len(splitlines(f_once)) = 2

\* C21: in local mode a worker is created only by a generate request whose
\* probe has answered true; when the probe answers false the request ends
\* with no worker created (so no extraction and no backend call), and with
\* the queue, the buttons and the current worker as they were (the workers
\* of earlier runs go on meanwhile).
C21_RunOnlyAfterProbe ==
    [][ /\ (Len(workers') > Len(workers) /\ cfg.llm_mode = "ollama") => app = "probed"
        /\ app = "no_model" =>
              /\ app' \in {"no_model", "running"}
              /\ Len(workers') = Len(workers)
              /\ UNCHANGED <<files, cfg, generate_btn, stop_btn, add_btn, worker>> ]_vars

\* a run was started in local mode, and a later request's probe answers false
C21_Witness ==
    /\ app = "no_model"
    /\ workers # <<>>
    /\ workers[1].llm_mode = "ollama"

-----------------------------------------------------------------------------
(* Further properties of the chunker (SpecPipeline) *)

\* C25: when the text given to the chunker contains the marker token, every
\* chunk begins with the token, the slices of a document longer than the
\* bound included (for bounds that leave room for the token).
C25_EveryChunkSelfDescribing ==
    (p_pc = "chunked_raw" /\ contains(p_raw, FileToken) /\ p_max >= Len(FileToken)) =>
        \A k \in 1..Len(p_chunks) : startswith(p_chunks[k], FileToken)

\* the document segments of a text as the chunker sees them: the pieces
\* between marker tokens, stripped, the empty ones left out, each with the
\* token in front when the text holds a token
RECURSIVE SegmentsOf(_, _)
SegmentsOf(blocks, marked) ==
    IF blocks = <<>> THEN <<>>
    ELSE LET body == strip(Head(blocks))
         IN  (IF body = <<>> THEN <<>>
              ELSE <<(IF marked THEN FileToken ELSE <<>>) \o body>>)
                 \o SegmentsOf(Tail(blocks), marked)

\* cs is, segment by segment, the segment itself when it fits in m characters,
\* else its consecutive slices: they join to the segment and all but the last
\* are exactly m long
RECURSIVE CoveredExactly(_, _, _)
CoveredExactly(segs, cs, m) ==
    IF segs = <<>> THEN cs = <<>>
    ELSE LET seg == Head(segs)
             n   == IF Len(seg) <= m THEN 1 ELSE (Len(seg) + m - 1) \div m
         IN  /\ Len(cs) >= n
             /\ Concat(SubSeq(cs, 1, n)) = seg
             /\ \A k \in 1..(n - 1) : Len(cs[k]) = m
             /\ Len(cs[n]) >= 1 /\ Len(cs[n]) <= m
             /\ CoveredExactly(Tail(segs), SubSeq(cs, n + 1, Len(cs)), m)

\* C26: every document segment is emitted whole when it is at most max_chars
\* long, and otherwise as consecutive slices that join to the segment with no
\* gap and no overlap, all but the last exactly max_chars long.
C26_SlicesCoverSegment ==
    /\ p_pc = "chunked_raw" =>
          CoveredExactly(SegmentsOf(split(p_raw, FileToken), contains(p_raw, FileToken)),
                         p_chunks, p_max)
    /\ p_pc = "chunked" =>
          CoveredExactly(SegmentsOf(split(p_cleaned, FileToken),
                                    contains(p_cleaned, FileToken)),
                         p_chunks, p_max)

\* two documents, the first cut into three or more slices with a short last
\* one, the second cut into slices that are all full
C26_Witness ==
    /\ p_pc = "chunked_raw"
    /\ Len(p_docs) = 2
    /\ LET segs == SegmentsOf(split(p_raw, FileToken), TRUE)
       IN  /\ Len(segs) = 2
           /\ Len(segs[1]) > 2 * p_max
           /\ Len(segs[1]) % p_max # 0
           /\ Len(segs[2]) > p_max
           /\ Len(segs[2]) % p_max = 0
           /\ Len(p_chunks) = (Len(segs[1]) + p_max - 1) \div p_max + Len(segs[2]) \div p_max

-----------------------------------------------------------------------------
(* Further properties of the front end and its workers (SpecApp) *)

\* the workers whose run() has not returned
Executing == {w \in 1..Len(workers) : workers[w].pc # "done"}

\* C28: at most one worker's run() is executing at any time.
C28_AtMostOneRun == Cardinality(Executing) <= 1

\* every file the merge loop of worker w has read gave an empty text
AllEmpty(w) ==
    \A k \in 1..Len(workers[w].combined) : extracted(workers[w].combined[k]) = <<>>

\* C29: when the merge loop of a run has ended and every file it read gave an
\* empty text, the run's next step ends it with the error "No text extracted"
\* (so before clean_text and before any backend call).
C29_NoTextExtracted ==
    [][ \A w \in 1..Len(workers) :
          ( /\ workers[w].pc = "merge"
            /\ workers[w].i >= Len(files)
            /\ AllEmpty(w)
            /\ workers'[w].pc # "merge" )
          => /\ workers'[w].pc = "done"
             /\ signals' = Append(signals, ErrorSig(w, "No text extracted")) ]_vars

\* run w has ended: run() has returned and the signal it emitted, if any, has
\* been handled
RunEnded(w) ==
    /\ workers[w].pc = "done"
    /\ \A k \in 1..Len(signals) : signals[k].w # w

\* the state unlock_ui leaves: Add Files and Settings usable, Stop disabled
Unlocked == add_btn /\ ~stop_btn

\* C30: every run that is started ends, and the front end is unlocked when it
\* has ended or some time after.
C30_RunEndsUnlocked ==
    \A w \in 1..MaxRuns :
        [](Len(workers) >= w => <>(Len(workers) >= w /\ RunEnded(w) /\ Unlocked))

-----------------------------------------------------------------------------
(* Specification of one ollama_has_model call *)

\* what `ollama list` can do: exit with a code and an output, or not run at all
ListOutcomes ==
    { [kind |-> "exit", returncode |-> 0, stdout |-> <<"N", "\n", "m">>],
      [kind |-> "exit", returncode |-> 0, stdout |-> <<" ", "\n">>],
      [kind |-> "exit", returncode |-> 0, stdout |-> <<>>],
      [kind |-> "exit", returncode |-> 1, stdout |-> <<>>],
      [kind |-> "exit", returncode |-> 1, stdout |-> <<"e">>],
      [kind |-> "raise", exc |-> "TimeoutExpired"],
      [kind |-> "raise", exc |-> "OSError"] }

\* what GET /api/tags can do: no connection, a body that is not JSON, a JSON
\* value that is not an object (all three end in `except Exception`), or a
\* well-formed reply
HttpOutcomes ==
    { [fault |-> f, reply |-> [ok |-> FALSE, models |-> <<>>]] :
          f \in {"unreachable", "not_json", "not_object"} }
        \cup { [fault |-> "none", reply |-> r] : r \in {t \in TagsReplies : t.ok} }

InitProbe ==
    /\ h_pc = "start"
    /\ h_env \in [ which : {PyNone, "ollama"}, installed : BOOLEAN,
                    list : ListOutcomes, http : HttpOutcomes ]
    /\ h_cli = PyNone
    /\ h_out = Pending
    /\ GeminiIdle
    /\ OllamaIdle
    /\ SumIdle
    /\ PipeIdle
    /\ AppIdle
    /\ CardsIdle
    /\ FilterIdle

NextProbe ==
    \/ ProbeFindCli
    \/ ProbeNoCli
    \/ ProbeListTrue
    \/ ProbeListFalse
    \/ ProbeListRaised
    \/ ProbeHttp

SpecProbe == InitProbe /\ [][NextProbe]_vars

\* C20: the availability probe never raises; whatever the binary lookup, the
\* listing (success, nonzero exit, timeout, spawn fault) and the HTTP
\* enumeration (unreachable, malformed, empty list) do, it ends by returning
\* a boolean, and the boolean is false when there is no binary and no HTTP
\* service.
C20_ProbeNeverRaises ==
    /\ h_out.kind # "raise"
    /\ h_pc = "done" =>
          /\ h_out.kind = "return"
          /\ h_out.value \in BOOLEAN
          /\ (h_cli = PyNone /\ h_env.http.fault = "unreachable") => h_out.value = FALSE

C20_Witness ==
    /\ h_pc = "done"
    /\ h_cli # PyNone
    /\ h_env.list = [kind |-> "raise", exc |-> "OSError"]
    /\ h_env.http.fault = "not_json"
    /\ h_out = ReturnedBool(FALSE)

-----------------------------------------------------------------------------
(* Further properties of merge and chunk (SpecPipeline) *)

\* what follows the token "===== FILE:" in the marker of a file
MarkerTail(name) ==
    <<" ">> \o name \o <<" ", "=", "=", "=", "=", "=", "\n", "\n">>

\* the part of the merged stream that belongs to document k of n: the rest of
\* its marker, a newline, its text, and (unless it is the last, whose trailing
\* whitespace the final strip removes) the newlines up to the next marker
DocSegment(k) ==
    LET body == MarkerTail(p_docs[k].name) \o <<"\n">> \o p_docs[k].text
    IN  IF k < Len(p_docs) THEN body \o <<"\n", "\n", "\n">> ELSE rstrip(body)

\* C18: the merged stream is, file by file in input order, the marker with
\* the file's basename followed by the file's text and nothing else: one
\* marker token per file, also for a file whose text is empty.
C18_OneMarkerPerFileInOrder ==
    p_pc \in {"merged", "chunked_raw", "cleaned", "chunked"} =>
        LET segs == split(p_raw, FileToken) IN
        /\ Len(segs) = Len(p_docs) + 1
        /\ segs[1] = <<>>
        /\ \A k \in 1..Len(p_docs) : segs[k + 1] = DocSegment(k)

C18_Witness ==
    /\ p_pc = "merged"
    /\ Len(p_docs) = 2
    /\ p_docs[1].text = <<>>
    /\ p_docs[2].text # <<>>
    /\ CountOcc(p_raw, FileToken) = 2
    /\ find(p_raw, MarkerTail(p_docs[1].name)) < find(p_raw, MarkerTail(p_docs[2].name))

\* the content of document k with its whitespace removed: name, marker end, text
DocKey(k) ==
    Squeeze(<<"F", "I", "L", "E", ":">> \o p_docs[k].name
                \o <<"=", "=", "=", "=", "=">> \o p_docs[k].text)

\* in s, the content of every document ends before the content of the next begins
DocsInOrder(s) ==
    \A k \in 1..(Len(p_docs) - 1) :
        /\ find(s, DocKey(k)) > 0
        /\ find(s, DocKey(k + 1)) > 0
        /\ find(s, DocKey(k)) + Len(DocKey(k)) <= find(s, DocKey(k + 1))

DistinctNames ==
    \A j, k \in 1..Len(p_docs) : j # k => p_docs[j].name # p_docs[k].name

\* C19: for documents told apart by their names, the content of document i
\* never comes before the content of document i-1, in the merged stream and in
\* the chunks taken in emission order.
C19_OrderPreserved ==
    (DistinctNames /\ p_pc \in {"merged", "chunked_raw", "cleaned", "chunked"}) =>
        /\ DocsInOrder(Squeeze(p_raw))
        /\ p_pc \in {"chunked_raw", "chunked"} => DocsInOrder(Squeeze(Concat(p_chunks)))

C19_Witness ==
    /\ p_pc = "chunked_raw"
    /\ Len(p_docs) = 2
    /\ DistinctNames
    /\ p_docs[1].text # <<>>
    /\ p_docs[2].text # <<>>
    /\ Len(p_chunks) > 2
    /\ DocsInOrder(Squeeze(Concat(p_chunks)))

====
